---------------------------- MODULE Spec2Model ----------------------------
(***************************************************************************)
(* State-machine model of the chat session hook useChat                    *)
(* (frontend/src/hooks/useChat.js): the WebSocket it opens, the queue of   *)
(* payloads waiting for the socket to open, the message log and the typing *)
(* map; and of the memory hook useCharacterMemory                          *)
(* (frontend/src/hooks/useCharacterMemory.js): the cache of memories and   *)
(* of the relationship record, its fetches and its refresh interval.       *)
(* Every handler of the hooks is one action.                               *)
(***************************************************************************)
EXTENDS Integers, Sequences, FiniteSets, TLC

(***************************************************************************)
(* Bounds of the model.                                                    *)
(***************************************************************************)
MaxSends == 2
MaxResponses == 1
MaxSockets == 1
MaxClock == 0

(***************************************************************************)
(* Values.                                                                 *)
(***************************************************************************)
\* JavaScript's undefined / a field the record does not carry.
Undefined == "undefined"

Personas == {"P1", "P2"}

\* A character object as the picker supplies it.  bio stands for every field
\* of the object that the payload does not carry.
Character(p) == [id |-> p, name |-> p, model |-> "m", bio |-> "b"]

\* The persona lists the hook is rendered with.
CharLists == {<< >>, <<Character("P1")>>, <<Character("P1"), Character("P2")>>}

\* WebSocket.readyState
CONNECTING == "CONNECTING"
OPEN == "OPEN"
CLOSING == "CLOSING"
CLOSED == "CLOSED"

\* Texts the caller passes to sendMessage, as sequences of characters.
RawTexts == {<< >>, <<" ">>, <<"h">>, <<" ", "h", " ">>}

\* event.data of an inbound frame: text that JSON.parse rejects (parsed =
\* FALSE), or a parsed record.  Fields a frame does not carry are Undefined.
Frame(parsed, type, characterId, content, timestamp, character_id, is_typing) ==
    [parsed |-> parsed, type |-> type, characterId |-> characterId,
     content |-> content, timestamp |-> timestamp,
     character_id |-> character_id, is_typing |-> is_typing]

\* The content of a frame that carries none (the handlers never read it).
NoText == << >>

MalformedFrame == Frame(FALSE, Undefined, Undefined, NoText, Undefined, Undefined, FALSE)

\* character_response frames; the server stamps each with an ISO time, and a
\* frame may also come without timestamp.
ResponseFrames ==
    {Frame(TRUE, "character_response", c, <<"r">>, "T1", Undefined, FALSE) :
        c \in Personas}
    \cup {Frame(TRUE, "character_response", "P1", <<"r">>, Undefined, Undefined, FALSE)}

TypingFrames ==
    {Frame(TRUE, "typing_indicator", Undefined, NoText, Undefined, "P1", b) :
        b \in BOOLEAN}

\* voice_data and error frames, and a type no handler knows.
OtherFrames ==
    {Frame(TRUE, ty, "P1", NoText, Undefined, Undefined, FALSE) :
        ty \in {"voice_data", "error", "avatar_prompt"}}

Frames == {MalformedFrame} \cup ResponseFrames \cup TypingFrames \cup OtherFrames

\* A character_response frame that carries no characterId: the handler
\* reads data.characterId (63) of whatever record the text denotes.
BareResponseFrames ==
    {Frame(TRUE, "character_response", Undefined, <<"r">>, "T1", Undefined, FALSE)}

\* The values of `${Date.now()}_${Math.floor(Math.random() * 1e6)}` (17).
ClientIds == {"c1", "c2"}

VARIABLES
    characters,   \* the characters argument of the current render
    messages,     \* useState: the message log
    isTyping,     \* useState: persona id -> BOOLEAN (a JavaScript object)
    connected,    \* useState: the connected flag
    sockets,      \* every WebSocket the hook has created: its readyState
    wsRef,        \* wsRef.current: 0 for null, else an index of sockets
    queue,        \* queueRef.current
    wire,         \* what the sockets transmitted, in order: [sock, payload]
    timers,       \* pending setTimeout(() => setIsTyping({})) callbacks
    renderedLen,  \* the length of messages the last render saw
    now,          \* the last reading of Date.now()
    calls,        \* history: the payloads sendMessage built, in call order,
                  \* the readyState each call found and how it ended
    last,         \* history: the handler that ran last
    arrivals,     \* history: the user messages sent and the responses
                  \* dispatched, in the order they happened
    bound,        \* the bounds of the run (never changes)
    clientIdRef,  \* clientIdRef.current
    urls,         \* the URL each socket of sockets was created with
    opened        \* history: the sockets whose connection was established

chatVars == <<characters, messages, isTyping, connected, sockets, wsRef, queue,
              wire, timers, renderedLen, now, calls, last, arrivals,
              clientIdRef, urls, opened>>

\* The ref and the URLs.
idVars == <<clientIdRef, urls>>

\* The state of useCharacterMemory.
VARIABLES
    memories,       \* useState: the cached memories
    relationship,   \* useState: the cached relationship record, or Null
    isLoading,      \* useState
    memoryEnabled,  \* useState
    mounted,        \* the component that uses the hook is mounted
    intervals,      \* the setInterval timers that are active
    inflight,       \* the fetches of loadMemoryData that have not resolved
    store,          \* the records the external store holds
    issued,         \* history: the number of fetches issued
    newest,         \* history: of the fetches that resolved with both
                    \* records, the one of the highest issue order
    memLast,        \* history: the handler of the memory hook that ran last
    writes,         \* the addMemory and updatePreferences calls that wait
                    \* for the answer of the store
    written,        \* history: the number of such calls made
    pair,           \* the (characterId, userId) pair the hook is rendered with
    cachedFor       \* history: the pair of the fetch whose result was
                    \* applied last

\* The writes of the hook.
writeVars == <<writes, written>>

\* The arguments of the hook and the owner of the cache.
pairVars == <<pair, cachedFor>>

memVars == <<memories, relationship, isLoading, memoryEnabled, mounted,
             intervals, inflight, store, issued, newest, memLast, writeVars,
             pairVars>>

\* The state of the character pickers.
VARIABLES
    selectedIds,    \* CharacterSelector, useState: the ids selected
    selected        \* AdminPanel, useState: the characters selected

pickVars == <<selectedIds, selected>>

vars == <<chatVars, bound, memVars, pickVars>>

(***************************************************************************)
(* Helpers.                                                                *)
(***************************************************************************)
\* The object {} with no keys.
EmptyTyping == [k \in {} |-> FALSE]

\* ({ ...prev, [key]: value })
Spread(prev, key, value) ==
    [k \in DOMAIN prev \cup {key} |-> IF k = key THEN value ELSE prev[k]]

\* new Date().toISOString() at clock value t
LocalIso(t) == <<"L0", "L1", "L2", "L3", "L4", "L5">>[t + 1]

IsSpace(c) == c = " "

RECURSIVE TrimStart(_)
TrimStart(s) ==
    IF s # << >> /\ IsSpace(Head(s)) THEN TrimStart(Tail(s)) ELSE s

RECURSIVE TrimEnd(_)
TrimEnd(s) ==
    IF s # << >> /\ IsSpace(s[Len(s)]) THEN TrimEnd(SubSeq(s, 1, Len(s) - 1)) ELSE s

\* String.prototype.trim
Trim(s) == TrimEnd(TrimStart(s))

ReadyState(ws) == IF ws = 0 THEN "NONE" ELSE sockets[ws]

\* No frame.
NoFrame == Frame(FALSE, "none", Undefined, NoText, Undefined, Undefined, FALSE)

\* The state a handler found, as last keeps it.
Snapshot ==
    [messages |-> messages, isTyping |-> isTyping, connected |-> connected,
     sockets |-> sockets, queue |-> queue, wire |-> wire]

NoSnapshot ==
    [messages |-> << >>, isTyping |-> EmptyTyping, connected |-> FALSE,
     sockets |-> << >>, queue |-> << >>, wire |-> << >>]

\* What last records: a sendMessage call that built a payload, with the
\* readyState it found; the dispatch of an inbound frame; or another
\* handler.  before is the state the handler found.
Sent(state) == [op |-> "send", at |-> state, frame |-> NoFrame, before |-> Snapshot]
Dispatched(f) == [op |-> "message", at |-> "NONE", frame |-> f, before |-> Snapshot]
Other == [op |-> "other", at |-> "NONE", frame |-> NoFrame, before |-> NoSnapshot]

\* The values Date.now() may return: the clock never runs backwards.
ClockReadings == now..bound.clock

\* `${wsBase}/ws/${clientIdRef.current}` (40), as the parts of the template;
\* wsBase is the same in every render.
Url(id) == <<"wsBase", "/ws/", id>>

\* The client id of a URL.
ClientIdOf(url) == url[3]

\* A ref that takes the initial value of every render.
UseRefReinitialised(current, initial) == initial

\* useRef(initial) in a render after the first (17): the initial value is
\* computed again and ignored, the ref keeps its value.
UseRef(current, initial) == current

(***************************************************************************)
(* Init: the hook after its first render and its first effect.  The first  *)
(* render put the initial value into clientIdRef.                          *)
(***************************************************************************)
InitChat ==
    /\ characters \in CharLists
    /\ clientIdRef \in ClientIds
    /\ messages = << >>
    /\ isTyping = EmptyTyping
    /\ connected = FALSE
    /\ sockets = IF characters = << >> THEN << >> ELSE <<CONNECTING>>
    /\ wsRef = IF characters = << >> THEN 0 ELSE 1
    /\ queue = << >>
    /\ wire = << >>
    /\ timers = 0
    /\ renderedLen = 0
    /\ now = 0
    /\ calls = << >>
    /\ last = Other
    /\ arrivals = << >>
    /\ urls = IF characters = << >> THEN << >> ELSE <<Url(clientIdRef)>>
    /\ opened = {}

(***************************************************************************)
(* currentSpeaker (useChat.js 26-34).                                      *)
(***************************************************************************)
\* JavaScript's null.
Null == [null |-> TRUE]

\* JavaScript truthiness of a string field.
Truthy(v) == v \notin {Undefined, ""}

\* characters.find(c => c.id === id) || null (30)
FindCharacter(cs, id) ==
    LET hits == {i \in 1..Len(cs) : cs[i].id = id}
    IN  IF hits = {} THEN Null
        ELSE cs[CHOOSE i \in hits : \A j \in hits : i <= j]

\* The loop of 27-32 from message i down (messages are numbered from 1
\* here), then line 33.
RECURSIVE CurrentSpeakerFrom(_, _, _)
CurrentSpeakerFrom(msgs, cs, i) ==
    IF i = 0 THEN (IF cs = << >> THEN Null ELSE cs[1])
    ELSE IF msgs[i].role # "user" /\ Truthy(msgs[i].characterId)
         THEN FindCharacter(cs, msgs[i].characterId)
         ELSE CurrentSpeakerFrom(msgs, cs, i - 1)

CurrentSpeaker(msgs, cs) == CurrentSpeakerFrom(msgs, cs, Len(msgs))

(***************************************************************************)
(* The connection effect (useChat.js 37-88).                               *)
(***************************************************************************)
\* A close() that starts the closing of every socket, a closed one too.
CloseSocketAgain(state) == CLOSING

\* ws.close(): a socket that is connecting or open starts closing.
CloseSocket(state) == IF state \in {CONNECTING, OPEN} THEN CLOSING ELSE state

\* A cleanup that closes nothing.
CleanupNothing(cs, socks, ws) == socks

\* The cleanup the effect returned (84-87); an effect that returned early
\* (no characters) returned none.
Cleanup(cs, socks, ws) ==
    IF cs = << >> \/ ws = 0 THEN socks
    ELSE [socks EXCEPT ![ws] = CloseSocket(socks[ws])]

\* A render with a new characters array: the cleanup of the previous effect,
\* then the effect again (37-42).
SetCharacters(cs) ==
    /\ cs = << >> \/ Len(sockets) < bound.sockets
    /\ characters' = cs
    /\ LET closed == Cleanup(characters, sockets, wsRef) IN
        IF cs = << >>
        THEN /\ sockets' = closed
             /\ wsRef' = 0
        ELSE /\ sockets' = Append(closed, CONNECTING)
             /\ wsRef' = Len(sockets) + 1
    /\ \E fresh \in ClientIds :
        /\ clientIdRef' = UseRef(clientIdRef, fresh)
        /\ urls' = IF cs = << >> THEN urls
                   ELSE Append(urls, Url(clientIdRef'))
    /\ renderedLen' = Len(messages)
    /\ last' = Other
    /\ UNCHANGED <<arrivals, bound, opened, memVars, pickVars>>
    /\ UNCHANGED <<messages, isTyping, connected, queue, wire, timers, now,
                   calls>>

\* A render that setMessages caused: sendMessage is rebuilt over the
\* messages of this render (90, 139).
Render ==
    /\ renderedLen < Len(messages)
    /\ renderedLen' = Len(messages)
    /\ \E fresh \in ClientIds : clientIdRef' = UseRef(clientIdRef, fresh)
    /\ last' = Other
    /\ UNCHANGED <<arrivals, bound, urls, opened, memVars, pickVars>>
    /\ UNCHANGED <<characters, messages, isTyping, connected, sockets, wsRef,
                   queue, wire, timers, now, calls>>

(***************************************************************************)
(* ws.onopen (44-54).                                                      *)
(***************************************************************************)
\* The flush loop shifts a payload, then sends it; nOk is the number of
\* sends that return before one throws (Len(q): none throws, the case the
\* catch of line 53 is written for).  The payloads the socket transmitted:
FlushSent(q, nOk) == SubSeq(q, 1, nOk)

\* What the loop leaves in the queue: the payload whose send threw was
\* shifted out before the send.
FlushLeft(q, nOk) == SubSeq(q, nOk + 2, Len(q))

\* The transmissions of socket s, as wire records them.
OnSocket(s, payloads) == [i \in 1..Len(payloads) |-> [sock |-> s, payload |-> payloads[i]]]

\* A socket opens only while it is connecting: close() before that fails
\* the connection.
OnOpen(s) ==
    /\ sockets[s] = CONNECTING
    /\ sockets' = [sockets EXCEPT ![s] = OPEN]
    /\ opened' = opened \cup {s}
    /\ connected' = TRUE
    /\ \E nOk \in 0..Len(queue) :
        /\ wire' = wire \o OnSocket(s, FlushSent(queue, nOk))
        /\ queue' = FlushLeft(queue, nOk)
    /\ last' = Other
    /\ UNCHANGED <<arrivals, bound, idVars, memVars, pickVars>>
    /\ UNCHANGED <<characters, messages, isTyping, wsRef, timers, renderedLen,
                   now, calls>>

(***************************************************************************)
(* ws.onmessage (56-74).                                                   *)
(***************************************************************************)
\* A timestamp that is always taken from the local clock.
ResponseTimestampLocal(data, t) == LocalIso(t)

\* data.timestamp || new Date().toISOString() (65)
ResponseTimestamp(data, t) ==
    IF Truthy(data.timestamp) THEN data.timestamp ELSE LocalIso(t)

\* The assistantMessage object (60-66) built from the parsed frame at clock t.
AssistantMessage(data, t) ==
    [id |-> t, role |-> "assistant", characterId |-> data.characterId,
     content |-> data.content, timestamp |-> ResponseTimestamp(data, t)]

\* A handler that takes every parsed frame for a response.
IsResponseAnyType(f) == f.parsed

\* JSON.parse(event.data) throws on text that is no JSON, and the catch
\* (71-73) ends the handler; of the parsed frames only character_response
\* has a branch (59).
IsResponse(f) == f.parsed /\ f.type = "character_response"

\* The responses the log holds.
Responses(log) == Cardinality({i \in 1..Len(log) : log[i].role = "assistant"})

\* A handler whose catch reports the frame it could not parse in the log.
MessagesAfterFrameReporting(prev, f, t) ==
    IF IsResponse(f) THEN Append(prev, AssistantMessage(f, t))
    ELSE IF ~f.parsed
         THEN Append(prev, [id |-> t, role |-> "error", characterId |-> Undefined,
                            content |-> NoText, timestamp |-> LocalIso(t)])
         ELSE prev

\* A handler that puts a response at the front of the log.
MessagesAfterFrameAtFront(prev, f, t) ==
    IF IsResponse(f) THEN <<AssistantMessage(f, t)>> \o prev ELSE prev

\* A handler that keeps only the newest response of a persona: it removes
\* the earlier messages of the log.
MessagesAfterFrameOnly(prev, f, t) ==
    IF IsResponse(f) THEN <<AssistantMessage(f, t)>> ELSE prev

\* setMessages of the handler (67).
MessagesAfterFrame(prev, f, t) ==
    IF IsResponse(f) THEN Append(prev, AssistantMessage(f, t)) ELSE prev

\* A handler that clears every typing flag on a response.
TypingAfterFrameClearAll(prev, f) ==
    IF IsResponse(f) THEN EmptyTyping ELSE prev

\* setIsTyping of the handler (68).
TypingAfterFrame(prev, f) ==
    IF IsResponse(f) THEN Spread(prev, f.characterId, FALSE) ELSE prev

\* History: the response the frame carries has arrived.
ArrivalsAfterFrame(prev, f) ==
    IF IsResponse(f)
    THEN Append(prev, [role |-> "assistant", characterId |-> f.characterId])
    ELSE prev

\* Frames are delivered on an open socket, and on a closing one until the
\* closing handshake ends; a socket that was closed before its connection
\* was established gets none.
OnMessage(s, f) ==
    /\ sockets[s] \in {OPEN, CLOSING}
    /\ s \in opened
    /\ IsResponse(f) => Responses(messages) < bound.responses
    /\ last' = Dispatched(f)
    /\ \E t \in ClockReadings :
        /\ now' = t
        /\ messages' = MessagesAfterFrame(messages, f, t)
    /\ isTyping' = TypingAfterFrame(isTyping, f)
    /\ arrivals' = ArrivalsAfterFrame(arrivals, f)
    /\ UNCHANGED <<characters, connected, sockets, wsRef, queue, wire, timers,
                   renderedLen, calls, bound, idVars, opened, memVars, pickVars>>

(***************************************************************************)
(* ws.onerror (76-78) and ws.onclose (80-82).                              *)
(***************************************************************************)
\* The connection fails: the socket is closed, then error and close fire.
OnError(s) ==
    /\ sockets[s] # CLOSED
    /\ sockets' = [sockets EXCEPT ![s] = CLOSED]
    /\ connected' = FALSE
    /\ last' = Other
    /\ UNCHANGED <<arrivals, bound, idVars, opened, memVars, pickVars>>
    /\ UNCHANGED <<characters, messages, isTyping, wsRef, queue, wire, timers,
                   renderedLen, now, calls>>

\* The closing handshake starts from the far end: readyState becomes
\* CLOSING and no handler runs; sendMessage reads the readyState (126).
Closing(s) ==
    /\ sockets[s] = OPEN
    /\ sockets' = [sockets EXCEPT ![s] = CLOSING]
    /\ last' = Other
    /\ UNCHANGED <<arrivals, bound, idVars, opened, memVars, pickVars>>
    /\ UNCHANGED <<characters, messages, isTyping, connected, wsRef, queue, wire,
                   timers, renderedLen, now, calls>>

\* A close handler that leaves the connected flag as it is.
OnCloseSilent(s) ==
    /\ sockets[s] # CLOSED
    /\ sockets' = [sockets EXCEPT ![s] = CLOSED]
    /\ last' = Other
    /\ UNCHANGED <<arrivals, bound, idVars, opened, memVars, pickVars>>
    /\ UNCHANGED <<characters, messages, isTyping, connected, wsRef, queue, wire,
                   timers, renderedLen, now, calls>>

\* The connection ends: close fires.
OnClose(s) ==
    /\ sockets[s] # CLOSED
    /\ sockets' = [sockets EXCEPT ![s] = CLOSED]
    /\ connected' = FALSE
    /\ last' = Other
    /\ UNCHANGED <<arrivals, bound, idVars, opened, memVars, pickVars>>
    /\ UNCHANGED <<characters, messages, isTyping, wsRef, queue, wire, timers,
                   renderedLen, now, calls>>

(***************************************************************************)
(* sendMessage (90-139).                                                   *)
(***************************************************************************)
\* The userMessage object (94-99).
UserMessage(text, t) ==
    [id |-> t, role |-> "user", characterId |-> Undefined, content |-> text,
     timestamp |-> LocalIso(t)]

\* typingState (103-104): every character of the render set to true.
TypingState(cs) == [k \in {cs[i].id : i \in 1..Len(cs)} |-> TRUE]

\* One entry of payload.characters (110-117).
PayloadCharacter(c) == [id |-> c.id, name |-> c.name, model |-> c.model]

\* One entry of payload.conversation_history (118-123).
HistoryEntry(m) ==
    [role |-> m.role, characterId |-> m.characterId, content |-> m.content,
     timestamp |-> m.timestamp]

\* A payload that carries no history.
PayloadWithoutHistory(text, cs, rendered, n) ==
    [message |-> text,
     characters |-> [i \in 1..Len(cs) |-> PayloadCharacter(cs[i])],
     conversation_history |-> << >>,
     n |-> n]

\* The payload (108-124), built over the characters and the messages of the
\* render sendMessage closes over.  n is history: the number of the call.
Payload(text, cs, rendered, n) ==
    [message |-> text,
     characters |-> [i \in 1..Len(cs) |-> PayloadCharacter(cs[i])],
     conversation_history |-> [i \in 1..Len(rendered) |-> HistoryEntry(rendered[i])],
     n |-> n]

\* JSON.stringify of a history entry: a property whose value is undefined
\* (the characterId of a user message) is left out.
JsonHistoryEntry(e) ==
    IF e.characterId = Undefined
    THEN [role |-> e.role, content |-> e.content, timestamp |-> e.timestamp]
    ELSE e

\* JSON.stringify(payload) (51, 135), as the record its text denotes: arrays
\* keep every entry in order.  n is history and no part of the text.
JsonStringify(payload) ==
    [message |-> payload.message,
     characters |-> payload.characters,
     conversation_history |->
        [i \in 1..Len(payload.conversation_history) |->
            JsonHistoryEntry(payload.conversation_history[i])]]

\* A test that queues only while the socket is connecting.
MustQueueOnlyConnecting(state) == state = CONNECTING

\* The test of line 126: no socket, or a socket that is not open.
MustQueue(state) == state # OPEN

\* queueRef.current after the call (128).
QueueAfterSend(q, state, payload) ==
    IF MustQueue(state) THEN Append(q, payload) ELSE q

\* What the socket ws has transmitted after the call (135): nothing more
\* when the payload was queued or ws.send threw.
WireAfterSend(w, ws, state, payload, threw) ==
    IF MustQueue(state) \/ threw THEN w
    ELSE Append(w, [sock |-> ws, payload |-> payload])

\* How the call ends.  The catch of 136-138 swallows what ws.send throws:
\* the call returns normally in every case.
SendOutcome(state, threw) ==
    IF MustQueue(state) THEN "queued"
    ELSE IF threw THEN "swallowed" ELSE "sent"

\* The setTimeout callbacks pending after the call (130, 137).
TimersAfterSend(n, state, threw) ==
    IF MustQueue(state) \/ threw THEN n + 1 ELSE n

SendMessage(raw) ==
    /\ Len(calls) < bound.sends
    /\ LET text == Trim(raw)
           state == ReadyState(wsRef)
           payload == Payload(text, characters, SubSeq(messages, 1, renderedLen),
                              Len(calls) + 1)
       IN
        IF text = << >>
        THEN /\ last' = Other
             /\ UNCHANGED <<messages, isTyping, queue, wire, timers, calls, now,
                            arrivals>>
        ELSE \E t \in ClockReadings,
                threw \in IF MustQueue(state) THEN {FALSE} ELSE BOOLEAN :
                /\ now' = t
                /\ messages' = Append(messages, UserMessage(text, t))
                /\ isTyping' = TypingState(characters)
                /\ queue' = QueueAfterSend(queue, state, payload)
                /\ wire' = WireAfterSend(wire, wsRef, state, payload, threw)
                /\ timers' = TimersAfterSend(timers, state, threw)
                /\ calls' = Append(calls, [payload |-> payload, at |-> state,
                                           outcome |-> SendOutcome(state, threw)])
                /\ last' = Sent(state)
                /\ arrivals' = Append(arrivals, [role |-> "user",
                                                 characterId |-> Undefined])
    /\ UNCHANGED <<characters, connected, sockets, wsRef, renderedLen, bound,
                   idVars, opened, memVars, pickVars>>

\* A setTimeout callback of sendMessage (130, 137) runs: setIsTyping({}).
TimerFire ==
    /\ timers > 0
    /\ timers' = timers - 1
    /\ isTyping' = EmptyTyping
    /\ last' = Other
    /\ UNCHANGED <<arrivals, bound, idVars, opened, memVars, pickVars>>
    /\ UNCHANGED <<characters, messages, connected, sockets, wsRef, queue, wire,
                   renderedLen, now, calls>>

(***************************************************************************)
(* useCharacterMemory: values.                                             *)
(***************************************************************************)
MaxFetches == 3
MaxStoreChanges == 2

MaxWrites == 1

\* The phase the store gives a relationship with shared_experiences = s;
\* the phases are those getRelationshipPhase knows (58-64).
StorePhase(s) ==
    IF s < 50 THEN "stranger" ELSE IF s < 100 THEN "friend" ELSE "intimate"

\* The preferences updatePreferences is called with, and those a record has
\* before any call.
Preferences == {"p1", "p2"}
NoPreferences == "p0"

\* A relationship record of the store with shared_experiences = s.
Relationship(s) ==
    [shared_experiences |-> s, relationship_phase |-> StorePhase(s),
     user_preferences |-> NoPreferences]

\* The values of shared_experiences the store may hold.
SharedExperiences == {55, 150}

\* The memories the store has after v changes.
StoreMemories(v) == SubSeq(<<"m0", "m1", "m2", "m3", "m4">>, 1, v + 1)

\* The memory the v-th change of the store adds.
InferredMemory(v) == StoreMemories(v)[v + 1]

\* The memory the store creates for the k-th write of the hook: the
\* response of the POST (part_002 171).
AddedMemory(k) == <<"a1", "a2", "a3">>[k]

InitialStore ==
    [version |-> 0, memories |-> StoreMemories(0), relationship |-> Relationship(0)]

\* The request of one loadMemoryData call (17-20): both GETs, answered by
\* the store with the records it holds when they are issued; the answer
\* resolves later.  n is history: the issue order of the call.
Fetch(n, st, k) ==
    [n |-> n, memories |-> st.memories, relationship |-> st.relationship,
     pair |-> k]

\* The (characterId, userId) pairs the hook is rendered with.
Pairs == {"k1", "k2"}
NoPair == "none"

NoFetch == [n |-> 0, memories |-> << >>, relationship |-> Null]

\* What memLast records: the handler, whether the two GETs of the fetch it
\* resolved succeeded, and the cache and the fetch count the handler found.
MemSnapshot == [memories |-> memories, relationship |-> relationship, issued |-> issued]
MemEvent(op, okM, okR) == [op |-> op, okM |-> okM, okR |-> okR, before |-> MemSnapshot]
MemOther ==
    [op |-> "other", okM |-> TRUE, okR |-> TRUE,
     before |-> [memories |-> << >>, relationship |-> Null, issued |-> 0]]

(***************************************************************************)
(* services/api.js memoryAPI (part_002 116-152).                           *)
(***************************************************************************)
\* getMemories: the parsed response, or [] when the request fails (the catch
\* of 129-132 returns it).
GetMemories(f, ok) == IF ok THEN f.memories ELSE << >>

\* getRelationship: the parsed response, or null when the request fails
\* (147-150).
GetRelationship(f, ok) == IF ok THEN f.relationship ELSE Null

(***************************************************************************)
(* loadMemoryData (12-29) and the refresh effect (78-87).                  *)
(***************************************************************************)
\* The synchronous part of loadMemoryData (13-19): nothing when memory is
\* disabled, else isLoading is set and the two GETs are issued.
LoadMemoryData(enabled, k) ==
    IF enabled
    THEN /\ issued < bound.fetches
         /\ isLoading' = TRUE
         /\ issued' = issued + 1
         /\ inflight' = inflight \cup {Fetch(issued + 1, store, k)}
    ELSE UNCHANGED <<isLoading, issued, inflight>>

\* setInterval of the effect (82-84).
EffectInterval(n) == n + 1

\* A cleanup that leaves the timer running.
CleanupIntervalLeaks(n) == n

\* clearInterval of the cleanup (86).
CleanupInterval(n) == n - 1

\* The interval timer fires (82-84).
Tick ==
    /\ intervals > 0
    /\ LoadMemoryData(memoryEnabled, pair)
    /\ memLast' = MemEvent("tick", TRUE, TRUE)
    /\ UNCHANGED <<memories, relationship, memoryEnabled, mounted, intervals,
                   store, newest, writeVars, pairVars, pickVars, chatVars, bound>>

\* The component calls refreshMemory (99).
RefreshMemory ==
    /\ mounted
    /\ LoadMemoryData(memoryEnabled, pair)
    /\ memLast' = MemEvent("refresh", TRUE, TRUE)
    /\ UNCHANGED <<memories, relationship, memoryEnabled, mounted, intervals,
                   store, newest, writeVars, pairVars, pickVars, chatVars, bound>>

\* setMemoryEnabled(b): loadMemoryData is rebuilt (29), so the effect is
\* cleaned up and runs again (78-87).
SetMemoryEnabled(b) ==
    /\ mounted
    /\ b # memoryEnabled
    /\ memoryEnabled' = b
    /\ intervals' = EffectInterval(CleanupInterval(intervals))
    /\ LoadMemoryData(b, pair)
    /\ memLast' = MemEvent("enable", TRUE, TRUE)
    /\ UNCHANGED <<memories, relationship, mounted, store, newest, writeVars, pairVars, pickVars, chatVars,
                   bound>>

\* The fetch f resolves (17-28): Promise.all never rejects, because both
\* GETs catch their failures, and the two results are set.  React drops the
\* state updates of a component that is no longer mounted.
Resolve(f, okM, okR) ==
    /\ f \in inflight
    /\ inflight' = inflight \ {f}
    /\ LET memoriesData == GetMemories(f, okM)
           relationshipData == GetRelationship(f, okR)
       IN  /\ IF mounted
              THEN /\ memories' = memoriesData
                   /\ relationship' = relationshipData
                   /\ isLoading' = FALSE
              ELSE UNCHANGED <<memories, relationship, isLoading>>
           /\ newest' = IF okM /\ okR /\ f.n > newest.n
                        THEN [n |-> f.n, memories |-> memoriesData,
                              relationship |-> relationshipData]
                        ELSE newest
    /\ cachedFor' = IF mounted THEN f.pair ELSE cachedFor
    /\ memLast' = MemEvent("resolve", okM, okR)
    /\ UNCHANGED <<memoryEnabled, mounted, intervals, store, issued, writeVars,
                   pair, pickVars, chatVars, bound>>

\* The hook is rendered with another characterId or userId: loadMemoryData
\* is rebuilt (29), so the effect is cleaned up and runs again (78-87).  The
\* state of the hook stays, and so do the fetches in flight.
SetPair(k) ==
    /\ mounted
    /\ k # pair
    /\ pair' = k
    /\ intervals' = EffectInterval(CleanupInterval(intervals))
    /\ LoadMemoryData(memoryEnabled, k)
    /\ memLast' = MemEvent("pair", TRUE, TRUE)
    /\ UNCHANGED <<memories, relationship, memoryEnabled, mounted, store, newest,
                   cachedFor, writeVars, pickVars, chatVars, bound>>

\* The component unmounts: the cleanup of the effect (86).
Unmount ==
    /\ mounted
    /\ mounted' = FALSE
    /\ intervals' = CleanupInterval(intervals)
    /\ memLast' = MemOther
    /\ UNCHANGED <<memories, relationship, isLoading, memoryEnabled, inflight,
                   store, issued, newest, writeVars, pairVars, pickVars, chatVars, bound>>

\* The record r with the preferences the store holds in record old.
StoredPreferences(r, old) ==
    IF r = Null \/ old = Null THEN r
    ELSE [r EXCEPT !.user_preferences = old.user_preferences]

\* The store changes a record: it infers a memory, and the relationship
\* record gets another shared_experiences or is removed.
StoreChange ==
    /\ store.version < bound.storeChanges
    /\ \E r \in {Null} \cup {Relationship(s) : s \in SharedExperiences} :
        store' = [version |-> store.version + 1,
                  memories |-> Append(store.memories,
                                      InferredMemory(store.version + 1)),
                  relationship |-> StoredPreferences(r, store.relationship)]
    /\ memLast' = MemOther
    /\ UNCHANGED <<memories, relationship, isLoading, memoryEnabled, mounted,
                   intervals, inflight, issued, newest, writeVars, pairVars, pickVars, chatVars, bound>>

(***************************************************************************)
(* addMemory (32-41) and updatePreferences (44-51).                        *)
(***************************************************************************)
\* A call that waits for the store: ok tells whether the request succeeds;
\* value is the memory the store answers with, or the preferences sent.
Write(kind, k, ok, value) == [kind |-> kind, n |-> k, ok |-> ok, value |-> value]

\* setMemories(prev => [newMemory, ...prev]) (35)
MemoriesAfterAdd(prev, newMemory) == <<newMemory>> \o prev

\* An update that replaces the record by the preferences.
PreferencesReplaced(prev, preferences) == [user_preferences |-> preferences]

\* ({ ...prev, user_preferences: preferences }) (47); the spread of null
\* has no properties.
PreferencesMerged(prev, preferences) ==
    Spread(IF prev = Null THEN EmptyTyping ELSE prev, "user_preferences",
           preferences)

\* addMemory is called (32-34): the POST is issued, and the store creates
\* the memory unless the request fails.  The call waits for the answer.
AddMemoryRequest ==
    /\ mounted
    /\ written < bound.writes
    /\ written' = written + 1
    /\ \E ok \in BOOLEAN :
        /\ writes' = writes \cup
                {Write("addMemory", written + 1, ok, AddedMemory(written + 1))}
        /\ store' = IF ok
                    THEN [store EXCEPT !.memories =
                            Append(@, AddedMemory(written + 1))]
                    ELSE store
    /\ memLast' = MemEvent("addMemoryRequest", TRUE, TRUE)
    /\ UNCHANGED <<memories, relationship, isLoading, memoryEnabled, mounted,
                   intervals, inflight, issued, newest, pairVars, pickVars, chatVars, bound>>

\* The answer of the POST arrives (34-40): the new memory is put in front
\* of the cache; a failure is logged and thrown again, and the cache stays.
AddMemoryResolve(w) ==
    /\ w \in writes
    /\ w.kind = "addMemory"
    /\ writes' = writes \ {w}
    /\ memories' = IF w.ok /\ mounted
                   THEN MemoriesAfterAdd(memories, w.value)
                   ELSE memories
    /\ memLast' = MemEvent("addMemory", w.ok, w.ok)
    /\ UNCHANGED <<relationship, isLoading, memoryEnabled, mounted, intervals,
                   inflight, store, issued, newest, written, pairVars, pickVars, chatVars, bound>>

\* updatePreferences is called (44-46): the PUT is issued, and the store
\* keeps the preferences in the relationship record unless the request
\* fails.  The call waits for the answer.
UpdatePreferencesRequest(preferences) ==
    /\ mounted
    /\ written < bound.writes
    /\ written' = written + 1
    /\ \E ok \in BOOLEAN :
        /\ writes' = writes \cup
                {Write("updatePreferences", written + 1, ok, preferences)}
        /\ store' = IF ok /\ store.relationship # Null
                    THEN [store EXCEPT !.relationship.user_preferences =
                            preferences]
                    ELSE store
    /\ memLast' = MemEvent("updatePreferencesRequest", TRUE, TRUE)
    /\ UNCHANGED <<memories, relationship, isLoading, memoryEnabled, mounted,
                   intervals, inflight, issued, newest, pairVars, pickVars, chatVars, bound>>

\* The answer of the PUT arrives (46-50): the preferences are merged into
\* the cached record; a failure is logged only.
UpdatePreferencesResolve(w) ==
    /\ w \in writes
    /\ w.kind = "updatePreferences"
    /\ writes' = writes \ {w}
    /\ relationship' = IF w.ok /\ mounted
                       THEN PreferencesMerged(relationship, w.value)
                       ELSE relationship
    /\ memLast' = MemEvent("updatePreferences", w.ok, w.ok)
    /\ UNCHANGED <<memories, isLoading, memoryEnabled, mounted, intervals,
                   inflight, store, issued, newest, written, pairVars, pickVars, chatVars, bound>>

(***************************************************************************)
(* getRelationshipProgress (70-76).                                        *)
(***************************************************************************)
MaxInteractions == 100

\* A double near the integer whole: whole + ulps units in the last place.
Double(whole, ulps) == [whole |-> whole, ulps |-> ulps]

\* (interactions / maxInteractions) * 100 in IEEE 754 double arithmetic,
\* with maxInteractions = 100: the quotient is rounded, and so is the
\* product; for these interactions the product is one unit in the last
\* place above or below the integer.
RoundedUp == {7, 14, 28, 55, 56, 109, 110, 111, 112}
RoundedDown == {29, 57, 58, 113, 114, 115, 116}
Percent(interactions) ==
    Double(interactions,
           IF interactions \in RoundedUp THEN 1
           ELSE IF interactions \in RoundedDown THEN -1 ELSE 0)

\* Not a number: what arithmetic on undefined gives.
NaN == [nan |-> TRUE]

\* Math.min: NaN when an argument is NaN.
MathMin(x, y) ==
    IF x = NaN \/ y = NaN THEN NaN
    ELSE IF x.whole < y.whole \/ (x.whole = y.whole /\ x.ulps <= y.ulps)
         THEN x ELSE y

\* A record without shared_experiences gives undefined for interactions
\* (72), and (undefined / 100) * 100 is NaN.
GetRelationshipProgress(rel) ==
    IF rel = Null THEN Double(0, 0)
    ELSE MathMin(IF "shared_experiences" \in DOMAIN rel
                 THEN Percent(rel.shared_experiences)
                 ELSE NaN,
                 Double(MaxInteractions, 0))

(***************************************************************************)
(* Init of the memory hook: after its first render and its first effect    *)
(* (one fetch issued, the interval set), or not rendered at all.           *)
(***************************************************************************)
InitMemory ==
    /\ memories = << >>
    /\ relationship = Null
    /\ isLoading = TRUE
    /\ memoryEnabled = TRUE
    /\ mounted = TRUE
    /\ intervals = EffectInterval(0)
    /\ store = InitialStore
    /\ pair \in Pairs
    /\ cachedFor = NoPair
    /\ inflight = {Fetch(1, InitialStore, pair)}
    /\ issued = 1
    /\ newest = NoFetch
    /\ memLast = MemOther
    /\ writes = {}
    /\ written = 0

MemoryUnused ==
    /\ memories = << >>
    /\ relationship = Null
    /\ isLoading = FALSE
    /\ memoryEnabled = TRUE
    /\ mounted = FALSE
    /\ intervals = 0
    /\ store = InitialStore
    /\ inflight = {}
    /\ pair = NoPair
    /\ cachedFor = NoPair
    /\ issued = 0
    /\ newest = NoFetch
    /\ memLast = MemOther
    /\ writes = {}
    /\ written = 0

\* The chat hook is not rendered.
ChatUnused ==
    /\ characters = << >>
    /\ messages = << >>
    /\ isTyping = EmptyTyping
    /\ connected = FALSE
    /\ sockets = << >>
    /\ wsRef = 0
    /\ queue = << >>
    /\ wire = << >>
    /\ timers = 0
    /\ renderedLen = 0
    /\ now = 0
    /\ calls = << >>
    /\ last = Other
    /\ arrivals = << >>
    /\ clientIdRef = Undefined
    /\ urls = << >>
    /\ opened = {}

(***************************************************************************)
(* The character pickers: CharacterSelector.jsx and AdminPanel             *)
(* (part_003 36-65).                                                       *)
(***************************************************************************)
\* The ids of DEFAULT_CHARACTERS (CharacterSelector.jsx 4-35).
DefaultIds == {"socrates", "cleopatra", "einstein"}

\* The characters the backend lists for the category (part_003 51-53): four
\* ids, and a second character with the id of the first.
AdminCharacters ==
    {[id |-> i, name |-> "n1"] : i \in {"a", "b", "c", "d"}}
    \cup {[id |-> "a", name |-> "n2"]}

\* prev.filter(x => keep(x)), for the two tests of the toggles.
RECURSIVE WithoutId(_, _)
WithoutId(prev, id) ==
    IF prev = << >> THEN << >>
    ELSE IF Head(prev) = id THEN WithoutId(Tail(prev), id)
         ELSE <<Head(prev)>> \o WithoutId(Tail(prev), id)

RECURSIVE WithoutCharacter(_, _)
WithoutCharacter(prev, id) ==
    IF prev = << >> THEN << >>
    ELSE IF Head(prev).id = id THEN WithoutCharacter(Tail(prev), id)
         ELSE <<Head(prev)>> \o WithoutCharacter(Tail(prev), id)

\* Array.prototype.slice(0, n)
Slice(a, n) == SubSeq(a, 1, IF Len(a) < n THEN Len(a) ELSE n)

\* The updater of CharacterSelector's toggle (41-43).
SelectorToggled(prev, id) ==
    IF \E i \in DOMAIN prev : prev[i] = id
    THEN WithoutId(prev, id)
    ELSE Slice(Append(prev, id), 3)

\* An updater without the cap.
AdminToggledNoCap(prev, c) ==
    IF \E i \in DOMAIN prev : prev[i].id = c.id
    THEN WithoutCharacter(prev, c.id)
    ELSE Append(prev, c)

\* The updater of AdminPanel's toggle (part_003 59-64).
AdminToggled(prev, c) ==
    IF \E i \in DOMAIN prev : prev[i].id = c.id
    THEN WithoutCharacter(prev, c.id)
    ELSE IF Len(prev) >= 3 THEN prev
         ELSE Append(prev, c)

\* A click on a character of CharacterSelector (60).
SelectorToggle(id) ==
    /\ selectedIds' = SelectorToggled(selectedIds, id)
    /\ UNCHANGED <<selected, chatVars, bound, memVars>>

\* A click on a character of AdminPanel (part_003 96).
AdminToggle(c) ==
    /\ selected' = AdminToggled(selected, c)
    /\ UNCHANGED <<selectedIds, chatVars, bound, memVars>>

\* The Clear button (part_003 109), and the effect of a change of category
\* (part_003 55).
AdminClear ==
    /\ selected # << >>
    /\ selected' = << >>
    /\ UNCHANGED <<selectedIds, chatVars, bound, memVars>>

\* Both pickers after their first render.
PickersUnused ==
    /\ selectedIds = << >>
    /\ selected = << >>

\* The bounds of a run: sendMessage calls with text, responses, sockets
\* and clock readings.
Bound(sends, responses, socks, clock) ==
    [sends |-> sends, responses |-> responses, sockets |-> socks, clock |-> clock]

(***************************************************************************)
(* The specifications.                                                     *)
(***************************************************************************)
Init ==
    /\ bound = Bound(MaxSends, MaxResponses, MaxSockets, MaxClock)
    /\ InitChat
    /\ PickersUnused
    /\ MemoryUnused

Next ==
    \/ \E cs \in CharLists : SetCharacters(cs)
    \/ Render
    \/ \E s \in DOMAIN sockets : OnOpen(s)
    \/ \E s \in DOMAIN sockets, f \in Frames : OnMessage(s, f)
    \/ \E s \in DOMAIN sockets : OnError(s)
    \/ \E s \in DOMAIN sockets : OnClose(s)
    \/ \E s \in DOMAIN sockets : Closing(s)
    \/ \E raw \in RawTexts : SendMessage(raw)
    \/ TimerFire

Spec == Init /\ [][Next]_vars

\* The chat hook with one sendMessage call and two responses.
OrderInit ==
    /\ bound = Bound(MaxSends - 1, MaxResponses + 1, MaxSockets, MaxClock)
    /\ InitChat
    /\ PickersUnused
    /\ MemoryUnused

OrderSpec == OrderInit /\ [][Next]_vars

\* The chat hook with one sendMessage call and two sockets.
ReopenInit ==
    /\ bound = Bound(MaxSends - 1, MaxResponses, MaxSockets + 1, MaxClock)
    /\ InitChat
    /\ PickersUnused
    /\ MemoryUnused

ReopenSpec == ReopenInit /\ [][Next]_vars

\* The chat hook with one sendMessage call and a clock that advances.
ClockInit ==
    /\ bound = Bound(MaxSends - 1, MaxResponses, MaxSockets, MaxClock + 1)
    /\ InitChat
    /\ PickersUnused
    /\ MemoryUnused

ClockSpec == ClockInit /\ [][Next]_vars

\* The chat hook with one sendMessage call, and with response frames that
\* lack fields.
FrameInit ==
    /\ bound = Bound(MaxSends - 1, MaxResponses, MaxSockets, MaxClock)
    /\ InitChat
    /\ PickersUnused
    /\ MemoryUnused

FrameNext ==
    \/ Next
    \/ \E s \in DOMAIN sockets, f \in BareResponseFrames : OnMessage(s, f)

FrameSpec == FrameInit /\ [][FrameNext]_vars

\* The chat hook with one sendMessage call, under fair scheduling: a
\* socket that stays able to open opens, a closing handshake ends, a
\* pending timer fires and a pending render happens.  Nothing obliges the
\* far end to answer or the caller to act.
LiveInit ==
    /\ bound = Bound(MaxSends - 1, MaxResponses, MaxSockets, MaxClock)
    /\ InitChat
    /\ PickersUnused
    /\ MemoryUnused

HandshakeEnds == \E s \in DOMAIN sockets : sockets[s] = CLOSING /\ OnClose(s)

Fairness ==
    /\ WF_vars(\E s \in DOMAIN sockets : OnOpen(s))
    /\ WF_vars(HandshakeEnds)
    /\ WF_vars(TimerFire)
    /\ WF_vars(Render)

LiveSpec == LiveInit /\ [][Next]_vars /\ Fairness

\* The character pickers.
PickerInit ==
    /\ bound = Bound(0, 0, 0, 0)
    /\ ChatUnused
    /\ PickersUnused
    /\ MemoryUnused

PickerNext ==
    \/ \E id \in DefaultIds : SelectorToggle(id)
    \/ \E c \in AdminCharacters : AdminToggle(c)
    \/ AdminClear

PickerSpec == PickerInit /\ [][PickerNext]_vars

\* The bounds of a run of the memory hook: fetches, changes of the store
\* and writes.
MemoryBound(fetches, changes, nWrites) ==
    [sends |-> 0, responses |-> 0, sockets |-> 0, clock |-> 0,
     fetches |-> fetches, storeChanges |-> changes, writes |-> nWrites]

\* The memory hook and its fetches.
MemoryInit ==
    /\ bound = MemoryBound(MaxFetches, MaxStoreChanges, 0)
    /\ ChatUnused
    /\ PickersUnused
    /\ InitMemory

MemoryNext ==
    \/ Tick
    \/ RefreshMemory
    \/ \E b \in BOOLEAN : SetMemoryEnabled(b)
    \/ \E f \in inflight, okM, okR \in BOOLEAN : Resolve(f, okM, okR)
    \/ Unmount
    \/ StoreChange

MemorySpec == MemoryInit /\ [][MemoryNext]_vars

\* The memory hook with its writes.
WriteNext ==
    \/ MemoryNext
    \/ AddMemoryRequest
    \/ \E w \in writes : AddMemoryResolve(w)
    \/ \E preferences \in Preferences : UpdatePreferencesRequest(preferences)
    \/ \E w \in writes : UpdatePreferencesResolve(w)

\* The memory hook rendered with changing (characterId, userId) pairs.
PairInit ==
    /\ bound = MemoryBound(MaxFetches, MaxStoreChanges - 1, 0)
    /\ ChatUnused
    /\ PickersUnused
    /\ InitMemory

PairNext ==
    \/ MemoryNext
    \/ \E k \in Pairs : SetPair(k)

PairSpec == PairInit /\ [][PairNext]_vars

WriteInit ==
    /\ bound = MemoryBound(MaxFetches - 1, MaxStoreChanges - 1, MaxWrites)
    /\ ChatUnused
    /\ PickersUnused
    /\ InitMemory

WriteSpec == WriteInit /\ [][WriteNext]_vars

(***************************************************************************)
(* Properties of the outbound path.                                        *)
(***************************************************************************)
\* The payloads transmitted so far, in order of transmission.
WirePayloads == [i \in 1..Len(wire) |-> wire[i].payload]

Occurs(x, seq) == \E i \in 1..Len(seq) : seq[i] = x

\* The position of payload p in the transmissions, 0 when it was not
\* transmitted.
WireIndex(p) ==
    IF Occurs(p, WirePayloads)
    THEN CHOOSE i \in 1..Len(wire) : wire[i].payload = p
    ELSE 0

\* The payloads of the calls that found the socket connecting, in call order.
BuiltWhileConnecting ==
    LET cs == SelectSeq(calls, LAMBDA c : c.at = CONNECTING)
    IN  [i \in 1..Len(cs) |-> cs[i].payload]

CurrentSocketOpen == wsRef # 0 /\ sockets[wsRef] = OPEN

\* C1: once the current socket has opened, the payloads of the sendMessage
\* calls made while the socket was connecting have been transmitted, in
\* exactly the order of the calls.
C1_ConnectingSendsTransmittedInCallOrder ==
    CurrentSocketOpen =>
        SelectSeq(WirePayloads, LAMBDA p : Occurs(p, BuiltWhileConnecting))
            = BuiltWhileConnecting

\* C2: a payload that a call handed to the open socket directly is never
\* transmitted ahead of a payload that an earlier call queued: every such
\* earlier payload is on the wire before it.
C2_NoFreshPayloadAheadOfQueued ==
    \A i, j \in 1..Len(calls) :
        (i < j /\ calls[i].outcome = "queued" /\ calls[j].outcome = "sent")
            => /\ WireIndex(calls[i].payload) # 0
               /\ WireIndex(calls[i].payload) < WireIndex(calls[j].payload)

\* C3: no queue entry is dropped: every payload that was placed in the
\* queue is still in the queue or has been transmitted.
C3_NoQueuedPayloadDropped ==
    \A i \in 1..Len(calls) :
        calls[i].outcome = "queued"
            => Occurs(calls[i].payload, queue) \/ Occurs(calls[i].payload, WirePayloads)

\* A call that fails visibly ends by throwing to its caller.
FailedVisibly(outcome) == outcome = "threw"

\* C4: after a sendMessage call with non-blank text the payload has been
\* transmitted, or is in the queue, or the call failed visibly.
C4_SendNeverLostSilently ==
    last.op = "send" =>
        LET c == calls[Len(calls)] IN
            \/ Occurs(c.payload, WirePayloads)
            \/ Occurs(c.payload, queue)
            \/ FailedVisibly(c.outcome)

C21_FailedSendAppendsError ==
    (last.op = "send" /\ calls[Len(calls)].outcome = "swallowed")
        => \E i \in (Len(last.before.messages) + 1)..Len(messages) :
                messages[i].role = "error"

\* C22: the request encoded by a sendMessage call lists every persona of
\* the session exactly once, in the configured order, and its
\* conversation_history holds every message of the history the call was
\* given (the log of the render it closes over), entry for entry in the
\* same order.
C22_RequestListsPersonasAndHistory ==
    last.op = "send" =>
        LET enc == JsonStringify(calls[Len(calls)].payload)
            given == SubSeq(last.before.messages, 1, renderedLen)
        IN  /\ Len(enc.characters) = Len(characters)
            /\ \A i \in 1..Len(characters) :
                    /\ enc.characters[i].id = characters[i].id
                    /\ enc.characters[i].name = characters[i].name
                    /\ enc.characters[i].model = characters[i].model
                    /\ Cardinality({j \in 1..Len(enc.characters) :
                            enc.characters[j].id = characters[i].id}) = 1
            /\ Len(enc.conversation_history) = Len(given)
            /\ \A i \in 1..Len(given) :
                    LET e == enc.conversation_history[i] IN
                        /\ e.role = given[i].role
                        /\ e.content = given[i].content
                        /\ e.timestamp = given[i].timestamp
                        /\ IF given[i].characterId = Undefined
                           THEN "characterId" \notin DOMAIN e
                           ELSE e.characterId = given[i].characterId

\* A call with two personas was given a history of a user message and a
\* response.
C22_Witness ==
    /\ last.op = "send"
    /\ Len(characters) = 2
    /\ renderedLen = 2
    /\ Len(calls[Len(calls)].payload.conversation_history) = 2
    /\ messages[1].role = "user"
    /\ messages[2].role = "assistant"

\* C36: the conversation_history of the payload a sendMessage call builds
\* is the whole log as it stood just before the call, in log order, also
\* when a call or a response came after the last render.
C36_HistoryIsWholeLog ==
    last.op = "send" =>
        calls[Len(calls)].payload.conversation_history
            = [i \in 1..Len(last.before.messages) |->
                    HistoryEntry(last.before.messages[i])]

\* The n-th call put its payload in the queue; the payload of the n-th
\* call has been transmitted.
Queued(n) == Len(calls) >= n /\ calls[n].outcome = "queued"
Transmitted(n) == Len(calls) >= n /\ Occurs(calls[n].payload, WirePayloads)

\* C34: every payload that sendMessage places in the queue is eventually
\* transmitted, also when it was queued while the socket was closed or
\* while there was none.
C34_QueuedEventuallyTransmitted ==
    \A n \in 1..MaxSends : [](Queued(n) => <>Transmitted(n))

\* The typing flag of persona p is set.
TypingOn(p) == p \in DOMAIN isTyping /\ isTyping[p]

\* C35: every typing flag that sendMessage sets is eventually cleared,
\* whether the payload was transmitted, queued or failed to transmit, or
\* the connection closed before the persona replied.
C35_TypingEventuallyCleared ==
    \A p \in Personas : [](TypingOn(p) => <>(~TypingOn(p)))

(***************************************************************************)
(* Properties of the dispatch of inbound frames.                           *)
(***************************************************************************)
ResponseDispatched ==
    last.op = "message" /\ last.frame.parsed /\ last.frame.type = "character_response"

\* C6: dispatching a character_response frame for persona P appends exactly
\* one assistant message for P at the end of the log and sets typing[P] to
\* false; the earlier messages and the flags of the other personas stay.
C6_ResponseAppendsAndClearsTyping ==
    ResponseDispatched =>
        LET P == last.frame.characterId
            old == last.before
        IN  /\ Len(messages) = Len(old.messages) + 1
            /\ SubSeq(messages, 1, Len(old.messages)) = old.messages
            /\ messages[Len(messages)].role = "assistant"
            /\ messages[Len(messages)].characterId = P
            /\ DOMAIN isTyping = DOMAIN old.isTyping \cup {P}
            /\ isTyping[P] = FALSE
            /\ \A k \in DOMAIN old.isTyping \ {P} : isTyping[k] = old.isTyping[k]

\* A response for P1 was dispatched while P1 and P2 were typing and the log
\* held a message.
C6_Witness ==
    /\ ResponseDispatched
    /\ last.frame.characterId = "P1"
    /\ last.before.messages # << >>
    /\ DOMAIN last.before.isTyping = {"P1", "P2"}
    /\ last.before.isTyping["P1"] /\ last.before.isTyping["P2"]
    /\ isTyping["P2"] /\ ~isTyping["P1"]

\* C7: a typing_indicator frame for persona P sets typing[P] to its
\* is_typing, and a character_response for P sets typing[P] to false.
C7_TypingIndicatorSetsFlag ==
    /\ (last.op = "message" /\ last.frame.parsed /\ last.frame.type = "typing_indicator")
           => /\ last.frame.character_id \in DOMAIN isTyping
              /\ isTyping[last.frame.character_id] = last.frame.is_typing
    /\ ResponseDispatched
           => /\ last.frame.characterId \in DOMAIN isTyping
              /\ isTyping[last.frame.characterId] = FALSE

\* The types of the wire protocol (the server never sends another).
KnownTypes == {"character_response", "voice_data", "typing_indicator", "error"}

\* C8: a frame of type voice_data, or of a type that is not recognized,
\* changes neither the message log nor the typing map.
C8_VoiceAndUnknownChangeNothing ==
    (/\ last.op = "message"
     /\ last.frame.parsed
     /\ last.frame.type = "voice_data" \/ last.frame.type \notin KnownTypes)
        => /\ messages = last.before.messages
           /\ isTyping = last.before.isTyping

\* A voice_data frame was dispatched while the log held a message and a
\* persona was typing.
C8_Witness ==
    /\ last.op = "message"
    /\ last.frame.parsed
    /\ last.frame.type = "voice_data"
    /\ messages # << >>
    /\ \E k \in DOMAIN isTyping : isTyping[k]

\* C9: a frame that does not parse changes neither the message log, the
\* typing map, the connected flag nor any socket, and the frames that
\* arrive after it are still dispatched.
C9_MalformedFrameChangesNothing ==
    (last.op = "message" /\ ~last.frame.parsed)
        => /\ messages = last.before.messages
           /\ isTyping = last.before.isTyping
           /\ connected = last.before.connected
           /\ sockets = last.before.sockets
           /\ \E s \in DOMAIN sockets :
                /\ ENABLED OnMessage(s, MalformedFrame)
                /\ Responses(messages) < bound.responses
                       => \A f \in ResponseFrames : ENABLED OnMessage(s, f)

\* A frame that does not parse was dispatched on the open socket while the
\* log held a message and a persona was typing.
C9_Witness ==
    /\ last.op = "message"
    /\ ~last.frame.parsed
    /\ messages # << >>
    /\ connected
    /\ \E k \in DOMAIN isTyping : isTyping[k]

\* A well-formed character_response payload supplies all three fields.
WellFormedResponse(f) ==
    /\ f.parsed
    /\ f.type = "character_response"
    /\ f.characterId # Undefined
    /\ f.timestamp \notin {Undefined, ""}

\* C10: the message appended for a well-formed character_response carries
\* exactly the characterId, the content and the timestamp of the payload.
C10_ResponseCarriesPayloadFields ==
    (last.op = "message" /\ WellFormedResponse(last.frame))
        => LET m == messages[Len(messages)] IN
            /\ Len(messages) = Len(last.before.messages) + 1
            /\ m.characterId = last.frame.characterId
            /\ m.content = last.frame.content
            /\ m.timestamp = last.frame.timestamp

\* A response for P2 stamped T1 was dispatched, and the log ends with it.
C10_Witness ==
    /\ last.op = "message"
    /\ WellFormedResponse(last.frame)
    /\ last.frame.characterId = "P2"
    /\ messages[Len(messages)].timestamp = "T1"
    /\ messages[Len(messages)].characterId = "P2"

\* C20: dispatching an error frame appends exactly one message, of the
\* error role, to the log, and changes neither the socket nor the connected
\* flag.
C20_ErrorFrameAppendsErrorMessage ==
    (last.op = "message" /\ last.frame.parsed /\ last.frame.type = "error")
        => /\ Len(messages) = Len(last.before.messages) + 1
           /\ SubSeq(messages, 1, Len(last.before.messages)) = last.before.messages
           /\ messages[Len(messages)].role = "error"
           /\ sockets = last.before.sockets
           /\ connected = last.before.connected

(***************************************************************************)
(* Properties of the message log.                                          *)
(***************************************************************************)
\* The role and the persona of every message of the log, in log order.
LogOrder ==
    [i \in 1..Len(messages) |->
        [role |-> messages[i].role, characterId |-> messages[i].characterId]]

PersonaMessages == {i \in 1..Len(messages) : messages[i].role = "assistant"}

\* C12: while personas are configured, the current speaker is the persona
\* of the most recent persona-role message of the log, and when the log has
\* none it is the first configured persona; it is null only when no persona
\* is configured.
C12_CurrentSpeakerIsLastPersona ==
    LET speaker == CurrentSpeaker(messages, characters) IN
        /\ (PersonaMessages # {} /\ characters # << >>) =>
                LET i == CHOOSE i \in PersonaMessages : \A j \in PersonaMessages : j <= i
                IN  speaker # Null /\ speaker.id = messages[i].characterId
        /\ (PersonaMessages = {} /\ characters # << >>) => speaker = characters[1]
        /\ speaker = Null => characters = << >>

\* C15: the log is append-only: in every step the log before the step is a
\* prefix of the log after it, so no message is removed, moved or changed.
C15_LogAppendOnly ==
    [][/\ Len(messages) <= Len(messages')
       /\ SubSeq(messages', 1, Len(messages)) = messages]_vars

\* The log has grown to a response, a user message and a second response.
C15_Witness ==
    /\ Len(messages) = 3
    /\ messages[1].role = "assistant"
    /\ messages[2].role = "user"
    /\ messages[3].role = "assistant"

\* C30: message ids are unique within a session: no two messages of the
\* log have the same id, also when they were created within the same
\* clock tick.
C30_MessageIdsUnique ==
    \A i, j \in DOMAIN messages : i # j => messages[i].id # messages[j].id

\* C31: every message of the log has a persona id if and only if it is a
\* persona message: a user message carries none, and a response carries
\* one, whatever fields its frame had.
C31_PersonaIdIffPersonaMessage ==
    \A i \in DOMAIN messages :
        Truthy(messages[i].characterId) <=> messages[i].role = "assistant"

(***************************************************************************)
(* Properties of the connection.                                           *)
(***************************************************************************)
Released(state) == state \in {CLOSING, CLOSED}

\* C13: teardown releases the transport once: the teardown of a session
\* leaves its socket closing or closed, also when the socket was still
\* connecting; a closed socket stays closed and a closing one never
\* reopens, whatever teardowns follow.
C13_TeardownReleasesOnce ==
    [][/\ \A s \in DOMAIN sockets :
            /\ s \in DOMAIN sockets'
            /\ sockets[s] = CLOSED => sockets'[s] = CLOSED
            /\ Released(sockets[s]) => Released(sockets'[s])
       /\ (wsRef # 0 /\ wsRef' # wsRef) => Released(sockets'[wsRef])]_vars

\* Two sessions were torn down, each while its socket was still connecting.
C13_Witness ==
    /\ sockets = <<CLOSING, CLOSING>>
    /\ wsRef = 0
    /\ ~connected
    /\ wire = << >>

\* C14: while the current socket is connecting or open, a run of the
\* connection effect with personas is a no-op: no step that leaves personas
\* configured creates another socket or moves the session to another one.
C14_OpenIsIdempotent ==
    [][(/\ wsRef # 0
        /\ sockets[wsRef] \in {CONNECTING, OPEN}
        /\ characters' # << >>)
            => /\ wsRef' = wsRef
               /\ Len(sockets') = Len(sockets)]_vars

\* The transitions of a connection that the state list names; a socket
\* exists from its creation, so Idle -> Connecting is the creation.
ListedTransitions ==
    {<<CONNECTING, OPEN>>, <<OPEN, CLOSING>>, <<CLOSING, CLOSED>>,
     <<OPEN, CLOSED>>}

\* The transitions a WebSocket of the hook makes.
SocketTransitions ==
    ListedTransitions \cup {<<CONNECTING, CLOSING>>, <<CONNECTING, CLOSED>>}

\* Every socket that exists stays and changes state along ts only, and
\* every socket created in the step starts connecting.
MovesAlong(ts) ==
    /\ \A s \in DOMAIN sockets :
            /\ s \in DOMAIN sockets'
            /\ sockets'[s] # sockets[s] => <<sockets[s], sockets'[s]>> \in ts
    /\ \A s \in DOMAIN sockets' \ DOMAIN sockets : sockets'[s] = CONNECTING

\* C23 as stated: the state of a connection changes only along
\* Idle -> Connecting, Connecting -> Open, Open -> Closing,
\* Closing -> Closed and Open -> Closed.
C23_Original_OnlyListedTransitions == [][MovesAlong(ListedTransitions)]_vars

\* C23, amended: a connection also goes from Connecting to Closing (a
\* teardown before it opened) and from Connecting to Closed (the attempt
\* failed); it makes no other transition: a closed connection stays
\* closed, and a closing one never opens.
C23_ConnectionTransitions == [][MovesAlong(SocketTransitions)]_vars

\* The first connection was torn down before it opened, and the second is
\* connecting.
C23_Witness ==
    /\ sockets = <<CLOSING, CONNECTING>>
    /\ wsRef = 2
    /\ ~connected
    /\ calls = << >>

\* C24: once the current connection has had its error or close event the
\* session reports disconnected; the hook opens no connection by itself (a
\* socket is created only by a run of the effect that the caller's
\* characters cause), and connected becomes true again only when a socket
\* that was connecting opens.
C24_DisconnectedUntilCallerReopens ==
    [][/\ (wsRef' # 0 /\ sockets'[wsRef'] = CLOSED) => ~connected'
       /\ Len(sockets') > Len(sockets) => \E cs \in CharLists : SetCharacters(cs)
       /\ (connected' /\ ~connected) =>
            /\ wsRef # 0
            /\ sockets[wsRef] = CONNECTING
            /\ sockets'[wsRef] = OPEN]_vars

\* The current connection transmitted a payload and then had its close
\* event: the session reports disconnected.
C24_Witness ==
    /\ wsRef # 0
    /\ sockets[wsRef] = CLOSED
    /\ ~connected
    /\ wire # << >>

\* C25: the client id is generated once per hook instance: every
\* connection the hook has opened, a connection opened after a teardown
\* too, has the same client id in its URL, the one the ref holds.
C25_OneClientIdPerSession ==
    /\ Len(urls) = Len(sockets)
    /\ \A s \in DOMAIN urls : urls[s] = Url(clientIdRef)
    /\ \A s, t \in DOMAIN urls : ClientIdOf(urls[s]) = ClientIdOf(urls[t])

\* A second connection was opened after the teardown of the first, which
\* had transmitted a payload, and it is open.
C25_Witness ==
    /\ Len(urls) = 2
    /\ sockets[1] \in {CLOSING, CLOSED}
    /\ sockets[2] = OPEN
    /\ wire # << >>
    /\ wire[1].sock = 1
    /\ ClientIdOf(urls[2]) = ClientIdOf(urls[1])

\* A socket that is connecting or open.
Live(state) == state \in {CONNECTING, OPEN}

\* After the step at most one socket is live, and it is the one the handle
\* refers to; a socket is created only in a step that leaves every earlier
\* socket closing or closed; and the handle changes only in a run of the
\* connection effect.
OneLiveSocket ==
    /\ \A s \in DOMAIN sockets' : Live(sockets'[s]) => s = wsRef'
    /\ Len(sockets') > Len(sockets) =>
            \A s \in DOMAIN sockets : Released(sockets'[s])
    /\ wsRef' # wsRef => \E cs \in CharLists : SetCharacters(cs)

\* C26 as stated: at most one socket is live, a socket is created only
\* after the previous one has been closed, and only the connection effect
\* (its onopen handler) writes to the socket.
C26_Original_OnlyEffectWrites ==
    [][/\ OneLiveSocket
       /\ wire' # wire => \E s \in DOMAIN sockets : OnOpen(s)]_vars

\* C26, amended: at most one socket is live, a socket is created only
\* after close() was called on the previous one, and only the connection
\* effect creates the socket, assigns the handle and closes it; the hook
\* writes to the socket in the effect's onopen handler and in sendMessage,
\* and both write to the socket of the handle while it is open.
C26_OneLiveSocketOwnedByHook ==
    [][/\ OneLiveSocket
       /\ \A i \in (Len(wire) + 1)..Len(wire') :
            /\ wire'[i].sock = wsRef
            /\ sockets'[wsRef] = OPEN
       /\ wire' # wire =>
            \/ \E s \in DOMAIN sockets : OnOpen(s)
            \/ \E raw \in RawTexts : SendMessage(raw)]_vars

\* The first socket was torn down, and sendMessage wrote to the second
\* one, which is open.
C26_Witness ==
    /\ sockets = <<CLOSING, OPEN>>
    /\ wsRef = 2
    /\ connected
    /\ Len(calls) = 1
    /\ calls[1].outcome = "sent"
    /\ wire = <<[sock |-> 2, payload |-> calls[1].payload]>>

\* C33: connected is true if and only if the current socket of the
\* session is open; a late close or error event of a replaced socket does
\* not clear it while the newer socket is open.
C33_ConnectedIffCurrentOpen ==
    connected <=> (wsRef # 0 /\ sockets[wsRef] = OPEN)

\* C37: a payload is transmitted only on a connection opened for the
\* persona list it was built with.  Every transmission is on the socket of
\* the handle (C26), which the effect opened for the characters of the
\* current render: so every payload a step transmits lists the current
\* characters, and none that was queued under an earlier list is flushed
\* onto the new connection.
C37_TransmittedOnOwnConnection ==
    [][\A i \in (Len(wire) + 1)..Len(wire') :
            wire'[i].payload.characters
                = [k \in 1..Len(characters) |-> PayloadCharacter(characters[k])]]_vars

(***************************************************************************)
(* Properties of the character pickers.                                    *)
(***************************************************************************)
\* C32: after any sequence of toggles, the selection of either picker holds
\* at most 3 characters and no character twice, and the toggle of an
\* unselected character leaves a selection of 3 as it is.
C32_SelectionAtMostThreeDistinct ==
    /\ Len(selectedIds) <= 3
    /\ Len(selected) <= 3
    /\ \A i, j \in DOMAIN selectedIds :
            selectedIds[i] = selectedIds[j] => i = j
    /\ \A i, j \in DOMAIN selected : selected[i].id = selected[j].id => i = j
    /\ Len(selected) = 3 =>
            \A c \in AdminCharacters :
                (\A i \in DOMAIN selected : selected[i].id # c.id)
                    => AdminToggled(selected, c) = selected
    /\ Len(selectedIds) = 3 =>
            \A id \in DefaultIds \cup {"other"} :
                (\A i \in DOMAIN selectedIds : selectedIds[i] # id)
                    => SelectorToggled(selectedIds, id) = selectedIds

\* Three characters are selected in each picker, and the backend lists a
\* fourth that is not selected.
C32_Witness ==
    /\ Len(selectedIds) = 3
    /\ Len(selected) = 3
    /\ \E c \in AdminCharacters : \A i \in DOMAIN selected : selected[i].id # c.id

(***************************************************************************)
(* Properties of the memory cache.                                         *)
(***************************************************************************)
\* C16: when a fetch has resolved with both records while the hook is
\* mounted, the cached memories and relationship are those delivered by the
\* fetch of the highest issue order among the fetches that have resolved
\* so: the result of an older fetch that resolves later is discarded.
C16_CacheFromNewestResolvedFetch ==
    (mounted /\ memLast.op = "resolve" /\ memLast.okM /\ memLast.okR)
        => /\ memories = newest.memories
           /\ relationship = newest.relationship

\* C17: a fetch that fails leaves the cache as it was: when the request for
\* the memories fails the cached memories stay, and when the request for
\* the relationship fails the cached relationship record stays.
C17_FailedFetchKeepsCache ==
    (mounted /\ memLast.op = "resolve")
        => /\ ~memLast.okM => memories = memLast.before.memories
           /\ ~memLast.okR => relationship = memLast.before.relationship

\* C27: the cache of memories only grows: every memory that is in the
\* cache before a step, fetched or returned by addMemory, is in the cache
\* after it.
C27_CacheOnlyGrows ==
    [][\A i \in DOMAIN memories :
            \E j \in DOMAIN memories' : memories'[j] = memories[i]]_vars

\* The fields of a cached relationship other than the preferences (none
\* when nothing is cached), and its phase.
RestOf(rel) ==
    IF rel = Null THEN EmptyTyping
    ELSE [k \in DOMAIN rel \ {"user_preferences"} |-> rel[k]]

PhaseOf(rel) ==
    IF rel = Null \/ "relationship_phase" \notin DOMAIN rel THEN Undefined
    ELSE rel.relationship_phase

\* The steps of addMemory and of updatePreferences.
WriteOps ==
    {"addMemoryRequest", "addMemory", "updatePreferencesRequest",
     "updatePreferences"}

\* C28: no write of the client changes the cached relationship phase:
\* addMemory leaves the cached relationship as it is, updatePreferences
\* changes nothing of it but the user preferences, and the phase changes
\* only in a step that applies the result of a fetch.
C28_WritesKeepPhase ==
    [][/\ memLast'.op \in WriteOps =>
            /\ RestOf(relationship') = RestOf(relationship)
            /\ PhaseOf(relationship') = PhaseOf(relationship)
       /\ memLast'.op \in {"addMemoryRequest", "addMemory"} =>
            relationship' = relationship
       /\ PhaseOf(relationship') # PhaseOf(relationship) =>
            memLast'.op = "resolve"]_vars

\* updatePreferences has put new preferences into a cached record whose
\* phase is friend.
C28_Witness ==
    /\ memLast.op = "updatePreferences"
    /\ memLast.okM
    /\ mounted
    /\ memLast.before.relationship # Null
    /\ memLast.before.relationship.user_preferences = NoPreferences
    /\ relationship.user_preferences \in Preferences
    /\ relationship.relationship_phase = "friend"
    /\ relationship.shared_experiences = 55

\* C29: addMemory and updatePreferences are optimistic: while a call
\* waits for the answer of the store, the cache already holds the new
\* memory or the new preferences.
C29_WritesAreOptimistic ==
    mounted =>
        \A w \in writes :
            IF w.kind = "addMemory"
            THEN \E i \in DOMAIN memories : memories[i] = w.value
            ELSE /\ relationship # Null
                 /\ "user_preferences" \in DOMAIN relationship
                 /\ relationship.user_preferences = w.value

\* C40: while the hook is mounted, isLoading is true exactly when at least
\* one fetch is in flight, also when two fetches overlap.
C40_LoadingIffFetchInFlight ==
    mounted => (isLoading <=> inflight # {})

\* C39: after any sequence of fetch results, addMemory calls and
\* updatePreferences calls, getRelationshipProgress returns a number
\* between 0 and 100 inclusive.
C39_ProgressWithinRange ==
    LET progress == GetRelationshipProgress(relationship)
    IN  /\ progress # NaN
        /\ progress.whole > 0 \/ (progress.whole = 0 /\ progress.ulps >= 0)
        /\ progress.whole < 100 \/ (progress.whole = 100 /\ progress.ulps <= 0)

\* C38: the cache belongs to the current (characterId, userId) pair: what
\* it holds was delivered by a fetch issued for the pair the hook is
\* rendered with, a fetch of a previous pair never overwrites it, and no
\* fetch result is applied after teardown.
C38_CacheOfCurrentPair ==
    /\ (mounted /\ cachedFor # NoPair) => cachedFor = pair
    /\ (~mounted /\ memLast.op = "resolve") =>
            /\ memories = memLast.before.memories
            /\ relationship = memLast.before.relationship

\* C18 as stated: every tick of the interval issues one fetch.
C18_Original_EveryTickFetches ==
    memLast.op = "tick" => issued = memLast.before.issued + 1

\* The steps that issue a fetch or set a timer.
Refreshing == Tick \/ RefreshMemory \/ \E b \in BOOLEAN : SetMemoryEnabled(b)

\* C18, amended: the first effect has issued one fetch; a tick of the
\* interval issues one fetch while memory is enabled and none while it is
\* disabled; exactly one interval timer is active while the hook is mounted
\* and none after teardown, when no step that issues a fetch can happen.
C18_RefreshWhileEnabled ==
    /\ issued >= 1
    /\ intervals = IF mounted THEN 1 ELSE 0
    /\ memLast.op = "tick" =>
            issued = memLast.before.issued + (IF memoryEnabled THEN 1 ELSE 0)
    /\ ~mounted => ~ENABLED Refreshing

\* A tick has issued a fetch while the fetch of the first effect was still
\* outstanding.
C18_Witness ==
    /\ memLast.op = "tick"
    /\ memoryEnabled
    /\ issued = memLast.before.issued + 1
    /\ Cardinality(inflight) = 2
    /\ intervals = 1

\* C19: the relationship progress of a cached record with
\* shared_experiences = s is exactly min(s, 100), and it is 0 when no record
\* is cached.
C19_ProgressIsClampedCount ==
    GetRelationshipProgress(relationship) =
        IF relationship = Null THEN Double(0, 0)
        ELSE LET s == relationship.shared_experiences
             IN  Double(IF s < 100 THEN s ELSE 100, 0)

=============================================================================
